---- MODULE Spec2Model ----
(***************************************************************************)
(* Model of src/indexing/indexing.py: the bulk URL submitter.              *)
(*                                                                         *)
(* main() walks the accounts in order; for each account whose key file     *)
(* exists it acquires a token and runs indexURL on the account's slice of  *)
(* all_urls.  indexURL opens one session, starts one send_url coroutine    *)
(* per URL, gathers them and folds the response bodies into three          *)
(* counters.  send_url posts one URL and retries on ServerDisconnectedError*)
(* up to three times.                                                      *)
(*                                                                         *)
(* The source file carries an unresolved merge conflict in main() (lines   *)
(* 70-105): the HEAD side reads data.csv and asks the operator for the     *)
(* number of accounts, the other side reads NUM_ACCOUNTS, URL and          *)
(* URLS_PER_ACCOUNT from the environment.  Both sides are modelled, as two *)
(* actions enabled at the start of main; `mode` records which one ran.     *)
(* The import block (lines 1-12) is taken as the union of both sides.      *)
(***************************************************************************)
EXTENDS Integers, Sequences, FiniteSets, TLC

VARIABLES
    mode,               \* which side of the conflict in main() ran
    pc,                 \* position of main(): start, loop, dispatch, done, crashed,
                        \* paused (the prompt of the except block), exited
    exitMsg,            \* the message main() printed before an early return
    num_accounts,       \* main: num_accounts
    urls_per_account,   \* main: urls_per_account (the configured quota)
    all_urls,           \* main: all_urls
    i,                  \* main: loop variable of `for i in range(num_accounts)`
    skipped,            \* accounts reported "accountN.json not found!"
    tokens,             \* accounts for which setup_http_client returned a token
    dispatched,         \* account -> start_index, end_index and the slice handed to indexURL
    tallied,            \* accounts whose indexURL printed its tally
    dpc,                \* position of indexURL: idle, gathering, raising, returned, raised
    urls,               \* indexURL: urls
    session,            \* the aiohttp.ClientSession of indexURL: none, open, closed
    tasks,              \* indexURL: tasks, one send_url coroutine per URL
    successful_urls,    \* indexURL: successful_urls
    error_429_count,    \* indexURL: error_429_count
    other_errors_count, \* indexURL: other_errors_count
    total,              \* the printed len(urls)
    restarted,          \* main() runs for the second time, from the except block
    completedBefore     \* some account had printed its tally when Ctrl+C came

vars == <<mode, pc, exitMsg, num_accounts, urls_per_account, all_urls, i,
          skipped, tokens, dispatched, tallied, dpc, urls, session, tasks,
          successful_urls, error_429_count, other_errors_count, total,
          restarted, completedBefore>>

\* lines 126-131: what the except block of the script keeps track of
signalVars == <<restarted, completedBefore>>

mainVars == <<mode, pc, exitMsg, num_accounts, urls_per_account, all_urls, i,
              skipped, tokens, dispatched, tallied, signalVars>>

tallyVars == <<successful_urls, error_429_count, other_errors_count, total>>

---------------------------------------------------------------------------
(* Bounds of the model *)

\* the largest account count the operator or the environment supplies
MaxAccounts == 3

\* the largest number of rows of data.csv
MaxUrls == 3

\* URLS_PER_ACCOUNT = 200 in the source (line 19); the model runs the same
\* code with a small quota so that a slice is a handful of coroutines
URLS_PER_ACCOUNT == 2

(* Program constants *)

\* `for _ in range(3)` in send_url
MaxAttempts == 3

\* `1 <= num_accounts <= 5` in main (HEAD side)
MaxNumAccounts == 5

\* `data["error"]["code"] == 429`
RateLimitCode == 429

\* the code of the synthesized body returned after the last retry
ExhaustedCode == 500

---------------------------------------------------------------------------
(* Response bodies.  A body is what response.text() returned; json says    *)
(* what json.loads makes of it, err what data["error"] is, code what       *)
(* data["error"]["code"] is.                                               *)

NoCode == -1

Body(j, e, c) == [json |-> j, err |-> e, code |-> c]

NoBody == Body("none", "absent", NoCode)

OK == Body("object", "absent", NoCode)
E429 == Body("object", "object", RateLimitCode)
E503 == Body("object", "object", 503)
MALFORMED == Body("invalid", "absent", NoCode)
BADERROR == Body("object", "scalar", NoCode)

\* line 35: '{"error": {"code": 500, "message": "Server Disconnected ..."}}'
EXHAUSTED == Body("object", "object", ExhaustedCode)

\* the bodies the remote end answers with in the model
Responses == {OK, E429, E503, MALFORMED, BADERROR}

---------------------------------------------------------------------------
(* Pure helpers *)

Min(a, b) == IF a <= b THEN a ELSE b

\* Python's s[start:end] for 0 <= start <= end: truncated at len(s)
PySlice(s, start, end) == SubSeq(s, Min(start, Len(s)) + 1, Min(end, Len(s)))

\* Python's [x] * n: the empty list when n <= 0
Repeat(x, n) == [k \in 1..n |-> x]

\* main, lines 117-119: the slice of account a (0-indexed)
start_index(a) == a * URLS_PER_ACCOUNT

\* line 118 with a slice that is one URL too long
end_index_long(a) == start_index(a) + URLS_PER_ACCOUNT + 1

end_index(a) == start_index(a) + URLS_PER_ACCOUNT

urls_for_account(all, a) == PySlice(all, start_index(a), end_index(a))

---------------------------------------------------------------------------
(* indexURL, lines 50-58: the fold of the gathered bodies *)

\* json.loads(result) raises on a body that is not JSON
LoadsRaises(body) == body.json = "invalid"

\* `"error" in data` raises TypeError when data is a number, a boolean or null
InRaises(body) == body.json \in {"number", "null"}

\* `"error" in data`: a key of an object, an element of an array, a substring
HasError(body) == body.err # "absent"

\* data["error"]["code"] raises unless data is an object whose "error" is an
\* object with a "code" key
CodeRaises(body) ==
    \/ body.json # "object"
    \/ body.err # "object"
    \/ body.code = NoCode

\* one iteration of `for result in results` raises
ResultRaises(body) ==
    \/ LoadsRaises(body)
    \/ InRaises(body)
    \/ HasError(body) /\ CodeRaises(body)

Counters(s, r, o) == [successful |-> s, rate_limited |-> r, other |-> o]

\* lines 52-58 without the `else` branch that counts the other errors
CountResultNoOther(c, body) ==
    IF HasError(body)
    THEN IF body.code = RateLimitCode
         THEN Counters(c.successful, c.rate_limited + 1, c.other)
         ELSE c
    ELSE Counters(c.successful + 1, c.rate_limited, c.other)

\* lines 52-58 without the comparison of the code: every error is a 429
CountResultAnyError(c, body) ==
    IF HasError(body)
    THEN Counters(c.successful, c.rate_limited + 1, c.other)
    ELSE Counters(c.successful + 1, c.rate_limited, c.other)

\* lines 52-58: one iteration of `for result in results` that does not raise
CountResult(c, body) ==
    IF HasError(body)
    THEN IF body.code = RateLimitCode
         THEN Counters(c.successful, c.rate_limited + 1, c.other)
         ELSE Counters(c.successful, c.rate_limited, c.other + 1)
    ELSE Counters(c.successful + 1, c.rate_limited, c.other)

\* the loop over results from position k on; it stops where an iteration raises
RECURSIVE FoldResults(_, _, _)
FoldResults(results, k, c) ==
    IF k > Len(results)
    THEN [raised |-> FALSE, counters |-> c]
    ELSE IF ResultRaises(results[k])
         THEN [raised |-> TRUE, counters |-> c]
         ELSE FoldResults(results, k + 1, CountResult(c, results[k]))

---------------------------------------------------------------------------
(* send_url, lines 23-35: one coroutine *)

Task(s, a, r) == [st |-> s, attempts |-> a, result |-> r]

\* the coroutine as gather schedules it
NewTask == Task("pending", 0, NoBody)

\* line 31 with a retry when the response is a 429
OnResponseRetries429(t, body) ==
    IF body = E429 /\ t.attempts + 1 < MaxAttempts
    THEN Task("pending", t.attempts + 1, NoBody)
    ELSE Task("done", t.attempts + 1, body)

\* line 31: the attempt got a response; its text is returned
OnResponse(t, body) == Task("done", t.attempts + 1, body)

\* lines 32-33: ServerDisconnectedError; the coroutine sleeps 2 seconds
OnDisconnect(t) == Task("sleeping", t.attempts + 1, NoBody)

\* any other exception of session.post leaves send_url
OnOtherException(t) == Task("raised", t.attempts + 1, NoBody)

\* lines 34-35, a variant that gives up one attempt early
OnWakeEarly(t) ==
    IF t.attempts < MaxAttempts - 1
    THEN Task("pending", t.attempts, NoBody)
    ELSE Task("done", t.attempts, EXHAUSTED)

\* lines 34-35, a variant that re-raises once the attempts are used up
OnWakeRaises(t) ==
    IF t.attempts < MaxAttempts
    THEN Task("pending", t.attempts, NoBody)
    ELSE Task("raised", t.attempts, NoBody)

\* lines 34-35: after the sleep, `continue`; the loop ends after 3 rounds
\* and the synthesized body is returned
OnWake(t) ==
    IF t.attempts < MaxAttempts
    THEN Task("pending", t.attempts, NoBody)
    ELSE Task("done", t.attempts, EXHAUSTED)

\* asyncio.run cancels what is still running when indexURL has raised
OnCancel(t) ==
    IF t.st \in {"pending", "sleeping"}
    THEN Task("cancelled", t.attempts, NoBody)
    ELSE t

Results == [k \in DOMAIN tasks |-> tasks[k].result]

---------------------------------------------------------------------------
(* The inputs of main *)

Accounts == 0..(num_accounts - 1)

\* what the operator types, or NUM_ACCOUNTS holds
NumAccountsInputs == (0..MaxAccounts) \cup {MaxNumAccounts + 1}

\* what URLS_PER_ACCOUNT holds: below, at and above the quota of the slices
QuotaInputs == 0..(URLS_PER_ACCOUNT + 1)

\* the "URL" column of data.csv with n rows
CsvUrls(n) == [k \in 1..n |-> k]

\* the value of the URL environment variable
EnvUrl == 1

IndexURLIdle ==
    /\ dpc = "idle"
    /\ urls = <<>>
    /\ session = "none"
    /\ tasks = <<>>
    /\ successful_urls = 0
    /\ error_429_count = 0
    /\ other_errors_count = 0
    /\ total = 0

Init ==
    /\ mode = "none"
    /\ pc = "start"
    /\ exitMsg = "none"
    /\ num_accounts = 0
    /\ urls_per_account = URLS_PER_ACCOUNT
    /\ all_urls = <<>>
    /\ i = 0
    /\ skipped = {}
    /\ tokens = {}
    /\ dispatched = <<>>
    /\ tallied = {}
    /\ IndexURLIdle
    /\ restarted = FALSE
    /\ completedBefore = FALSE

indexVars == <<dpc, urls, session, tasks, tallyVars>>

\* the frame of the indexURL call that returned is gone once main moves on
IndexURLGone ==
    /\ dpc' = "idle"
    /\ urls' = <<>>
    /\ session' = "none"
    /\ tasks' = <<>>
    /\ successful_urls' = 0
    /\ error_429_count' = 0
    /\ other_errors_count' = 0
    /\ total' = 0

historyVars == <<skipped, tokens, dispatched, tallied>>

\* main returns or dies before the loop
MainEnds(m, p, msg) ==
    /\ mode' = m
    /\ pc' = p
    /\ exitMsg' = msg
    /\ UNCHANGED <<num_accounts, urls_per_account, all_urls, i, signalVars>>

\* main reaches the loop over the accounts
MainLoops(m, n, q, all) ==
    /\ mode' = m
    /\ pc' = "loop"
    /\ exitMsg' = "none"
    /\ num_accounts' = n
    /\ urls_per_account' = q
    /\ all_urls' = all
    /\ i' = 0
    /\ UNCHANGED signalVars

\* main, lines 71-87 (HEAD side): data.csv and the operator's answer
MainHead ==
    /\ pc = "start"
    /\ mode \in {"none", "head"}
    /\ UNCHANGED <<historyVars, indexVars>>
    /\ \E csvExists \in BOOLEAN, isInt \in BOOLEAN, answer \in NumAccountsInputs,
          readable \in BOOLEAN, rows \in 0..MaxUrls :
        IF ~csvExists
        THEN MainEnds("head", "done", "data.csv file not found")
        ELSE IF ~isInt
        THEN MainEnds("head", "crashed", "ValueError")
        ELSE IF ~(1 <= answer /\ answer <= MaxNumAccounts)
        THEN MainEnds("head", "done", "Invalid number of accounts")
        ELSE IF ~readable
        THEN MainEnds("head", "done", "Error reading data.csv")
        ELSE MainLoops("head", answer, URLS_PER_ACCOUNT, CsvUrls(rows))

\* main, lines 89-104 (other side): NUM_ACCOUNTS, URL, URLS_PER_ACCOUNT
MainEnv ==
    /\ pc = "start"
    /\ mode \in {"none", "env"}
    /\ UNCHANGED <<historyVars, indexVars>>
    /\ \E nIsInt \in BOOLEAN, n \in 0..MaxAccounts, urlSet \in BOOLEAN,
          qIsInt \in BOOLEAN, q \in QuotaInputs :
        \* the environment of the process is the same when main runs again
        /\ restarted =>
            nIsInt /\ urlSet /\ qIsInt /\ n = num_accounts /\ q = urls_per_account
        /\ IF ~nIsInt
           THEN MainEnds("env", "done", "Invalid number of accounts")
           ELSE IF ~urlSet
           THEN MainEnds("env", "done", "URL parameter not provided")
           ELSE IF ~qIsInt
           THEN MainEnds("env", "crashed", "ValueError")
           ELSE MainLoops("env", n, q, Repeat(EnvUrl, n * q))

configVars == <<mode, exitMsg, num_accounts, urls_per_account, all_urls, signalVars>>

\* lines 113-115 with `break` in the place of `continue`
LoopSkipBreaks ==
    /\ pc = "loop"
    /\ i < num_accounts
    /\ skipped' = skipped \cup {i}
    /\ pc' = "done"
    /\ IndexURLGone
    /\ UNCHANGED <<i, configVars, tokens, dispatched, tallied>>

\* main, lines 113-115: the key file of account i is missing
LoopSkip ==
    /\ pc = "loop"
    /\ i < num_accounts
    /\ skipped' = skipped \cup {i}
    /\ i' = i + 1
    /\ IndexURLGone
    /\ UNCHANGED <<pc, configVars, tokens, dispatched, tallied>>

\* main, line 121: setup_http_client raises (bad key file, token exchange fails)
LoopTokenFails ==
    /\ pc = "loop"
    /\ i < num_accounts
    /\ pc' = "crashed"
    /\ IndexURLGone
    /\ UNCHANGED <<configVars, i, historyVars>>

\* lines 117-122 without waiting for indexURL: the coroutines of the slice
\* are started and the loop goes on with the next account
LoopDispatchNoWait ==
    /\ pc = "loop"
    /\ i < num_accounts
    /\ i' = i + 1
    /\ tokens' = tokens \cup {i}
    /\ dispatched' = (i :> [start |-> start_index(i), end |-> end_index(i),
                            urls |-> urls_for_account(all_urls, i)]) @@ dispatched
    /\ dpc' = "gathering"
    /\ urls' = urls \o urls_for_account(all_urls, i)
    /\ session' = "open"
    /\ tasks' = tasks \o [k \in 1..Len(urls_for_account(all_urls, i)) |-> NewTask]
    /\ UNCHANGED <<pc, configVars, skipped, tallied, tallyVars>>

\* lines 45-46 over the distinct URLs of the slice only
LoopDispatchDistinct ==
    /\ pc = "loop"
    /\ i < num_accounts
    /\ pc' = "dispatch"
    /\ tokens' = tokens \cup {i}
    /\ dispatched' = (i :> [start |-> start_index(i), end |-> end_index(i),
                            urls |-> urls_for_account(all_urls, i)]) @@ dispatched
    /\ dpc' = "gathering"
    /\ urls' = urls_for_account(all_urls, i)
    /\ session' = "open"
    /\ tasks' = [k \in 1..Cardinality({urls_for_account(all_urls, i)[j] :
                        j \in 1..Len(urls_for_account(all_urls, i))}) |-> NewTask]
    /\ successful_urls' = 0
    /\ error_429_count' = 0
    /\ other_errors_count' = 0
    /\ total' = 0
    /\ UNCHANGED <<configVars, i, skipped, tallied>>

\* main, lines 117-122, and indexURL, lines 38-48: the token is acquired, the
\* slice is cut, the session is opened and one coroutine per URL is gathered
LoopDispatch ==
    /\ pc = "loop"
    /\ i < num_accounts
    /\ pc' = "dispatch"
    /\ tokens' = tokens \cup {i}
    /\ dispatched' = (i :> [start |-> start_index(i), end |-> end_index(i),
                            urls |-> urls_for_account(all_urls, i)]) @@ dispatched
    /\ dpc' = "gathering"
    /\ urls' = urls_for_account(all_urls, i)
    /\ session' = "open"
    /\ tasks' = [k \in 1..Len(urls_for_account(all_urls, i)) |-> NewTask]
    /\ successful_urls' = 0
    /\ error_429_count' = 0
    /\ other_errors_count' = 0
    /\ total' = 0
    /\ UNCHANGED <<configVars, i, skipped, tallied>>

\* main, line 108: the loop is over and main returns
LoopExit ==
    /\ pc = "loop"
    /\ i >= num_accounts
    /\ pc' = "done"
    /\ IndexURLGone
    /\ UNCHANGED <<configVars, i, historyVars>>

---------------------------------------------------------------------------
(* The coroutines of one indexURL call *)

\* send_url, lines 30-31: the attempt of coroutine k gets a response
AttemptResponds(k) ==
    /\ dpc = "gathering"
    /\ k \in DOMAIN tasks
    /\ tasks[k].st = "pending"
    /\ \E body \in Responses :
        tasks' = [tasks EXCEPT ![k] = OnResponse(tasks[k], body)]
    /\ UNCHANGED <<mainVars, dpc, urls, session, tallyVars>>

\* send_url, lines 32-33: the attempt of coroutine k ends in a disconnect
AttemptDisconnects(k) ==
    /\ dpc = "gathering"
    /\ k \in DOMAIN tasks
    /\ tasks[k].st = "pending"
    /\ tasks' = [tasks EXCEPT ![k] = OnDisconnect(tasks[k])]
    /\ UNCHANGED <<mainVars, dpc, urls, session, tallyVars>>

\* send_url, line 30: session.post raises something that is not caught
AttemptRaises(k) ==
    /\ dpc = "gathering"
    /\ k \in DOMAIN tasks
    /\ tasks[k].st = "pending"
    /\ tasks' = [tasks EXCEPT ![k] = OnOtherException(tasks[k])]
    /\ UNCHANGED <<mainVars, dpc, urls, session, tallyVars>>

\* send_url, lines 33-35: the sleep of coroutine k is over
Wake(k) ==
    /\ dpc = "gathering"
    /\ k \in DOMAIN tasks
    /\ tasks[k].st = "sleeping"
    /\ tasks' = [tasks EXCEPT ![k] = OnWake(tasks[k])]
    /\ UNCHANGED <<mainVars, dpc, urls, session, tallyVars>>

\* line 48 with a gather that returns at the first finished coroutine
AnyDone == tasks = <<>> \/ \E k \in DOMAIN tasks : tasks[k].st = "done"

\* line 48: gather returns when every coroutine has returned
AllDone == \A k \in DOMAIN tasks : tasks[k].st = "done"

SomeRaised == \E k \in DOMAIN tasks : tasks[k].st = "raised"

\* indexURL, lines 48-62: gather returns the bodies, the loop counts them,
\* the session is closed and the tally is printed; main goes on to the
\* next account
GatherReturns ==
    /\ pc = "dispatch"
    /\ dpc = "gathering"
    /\ AllDone
    /\ ~FoldResults(Results, 1, Counters(0, 0, 0)).raised
    /\ LET c == FoldResults(Results, 1, Counters(0, 0, 0)).counters IN
        /\ successful_urls' = c.successful
        /\ error_429_count' = c.rate_limited
        /\ other_errors_count' = c.other
    /\ total' = Len(urls)
    /\ session' = "closed"
    /\ dpc' = "returned"
    /\ tallied' = tallied \cup {i}
    /\ pc' = "loop"
    /\ i' = i + 1
    /\ UNCHANGED <<configVars, skipped, tokens, dispatched, urls, tasks>>

\* indexURL, lines 50-58: an iteration of the loop over the bodies raises;
\* the session is closed, nothing is printed, and the exception leaves
\* asyncio.run and main
FoldRaises ==
    /\ pc = "dispatch"
    /\ dpc = "gathering"
    /\ AllDone
    /\ FoldResults(Results, 1, Counters(0, 0, 0)).raised
    /\ LET c == FoldResults(Results, 1, Counters(0, 0, 0)).counters IN
        /\ successful_urls' = c.successful
        /\ error_429_count' = c.rate_limited
        /\ other_errors_count' = c.other
    /\ session' = "closed"
    /\ dpc' = "raised"
    /\ pc' = "crashed"
    /\ UNCHANGED <<configVars, i, historyVars, urls, tasks, total>>

\* line 48 with a session that is not in an `async with` block: the
\* exception leaves indexURL and the session stays open
GatherRaisesLeaks ==
    /\ pc = "dispatch"
    /\ dpc = "gathering"
    /\ SomeRaised
    /\ dpc' = "raising"
    /\ UNCHANGED <<mainVars, urls, session, tasks, tallyVars>>

\* indexURL, line 48: gather re-raises the exception of a coroutine as soon
\* as there is one; the others keep running while the `async with` block is
\* left and the session is closed
GatherRaises ==
    /\ pc = "dispatch"
    /\ dpc = "gathering"
    /\ SomeRaised
    /\ session' = "closed"
    /\ dpc' = "raising"
    /\ UNCHANGED <<mainVars, urls, tasks, tallyVars>>

\* main, line 122: asyncio.run cancels the coroutines that are left and
\* re-raises; the exception leaves main
RunRaises ==
    /\ pc = "dispatch"
    /\ dpc = "raising"
    /\ tasks' = [k \in DOMAIN tasks |-> OnCancel(tasks[k])]
    /\ dpc' = "raised"
    /\ pc' = "crashed"
    /\ UNCHANGED <<configVars, i, historyVars, urls, session, tallyVars>>

---------------------------------------------------------------------------

Next ==
    \/ MainHead
    \/ MainEnv
    \/ LoopSkip
    \/ LoopTokenFails
    \/ LoopDispatch
    \/ LoopExit
    \/ \E k \in DOMAIN tasks : AttemptResponds(k)
    \/ \E k \in DOMAIN tasks : AttemptDisconnects(k)
    \/ \E k \in DOMAIN tasks : AttemptRaises(k)
    \/ \E k \in DOMAIN tasks : Wake(k)
    \/ GatherReturns
    \/ FoldRaises
    \/ GatherRaises
    \/ RunRaises

Spec == Init /\ [][Next]_vars

---------------------------------------------------------------------------
(* The operator at the keyboard, lines 125-131 *)

\* Ctrl+C while main is in the loop over the accounts, first run of main:
\* asyncio.run cancels the coroutines that are left, the `async with` block
\* closes the session, and KeyboardInterrupt leaves indexURL and main and
\* reaches the except block, which prints the message and waits at input()
Interrupt ==
    /\ pc \in {"loop", "dispatch"}
    /\ ~restarted
    /\ pc' = "paused"
    /\ completedBefore' = (tallied # {})
    /\ IndexURLGone
    /\ UNCHANGED <<mode, exitMsg, num_accounts, urls_per_account, all_urls, i,
                   historyVars, restarted>>

\* Ctrl+C while main runs from the except block: nothing catches it
InterruptAgain ==
    /\ pc \in {"loop", "dispatch"}
    /\ restarted
    /\ pc' = "exited"
    /\ IndexURLGone
    /\ UNCHANGED <<configVars, i, historyVars>>

\* lines 130-131 with a main that goes on where it was stopped
ResumeWhereStopped ==
    /\ pc = "paused"
    /\ pc' = "loop"
    /\ restarted' = TRUE
    /\ IndexURLGone
    /\ UNCHANGED <<mode, exitMsg, num_accounts, urls_per_account, all_urls, i,
                   historyVars, completedBefore>>

\* lines 130-131: the operator presses Enter and main() is called again
Resume ==
    /\ pc = "paused"
    /\ pc' = "start"
    /\ restarted' = TRUE
    /\ i' = 0
    /\ skipped' = {}
    /\ tokens' = {}
    /\ dispatched' = <<>>
    /\ tallied' = {}
    /\ IndexURLGone
    /\ UNCHANGED <<mode, exitMsg, num_accounts, urls_per_account, all_urls,
                   completedBefore>>

\* line 130: Ctrl+C again at the prompt ends the script
Quit ==
    /\ pc = "paused"
    /\ pc' = "exited"
    /\ UNCHANGED <<configVars, i, historyVars, indexVars>>

NextInterrupt ==
    \/ Next
    \/ Interrupt
    \/ InterruptAgain
    \/ Resume
    \/ Quit

SpecInterrupt == Init /\ [][NextInterrupt]_vars

---------------------------------------------------------------------------
(* Properties *)

\* the coroutines whose body satisfies P
Count(P(_)) == Cardinality({k \in DOMAIN tasks : P(tasks[k].result)})

IsExhausted(body) == body = EXHAUSTED

\* C1: when indexURL has returned, the printed total is the sum of the three
\* counters and is the number of URLs of the slice it was given
C1_TallyIsTotal ==
    dpc = "returned" =>
        /\ total = successful_urls + error_429_count + other_errors_count
        /\ total = Len(urls)
        /\ (i - 1) \in DOMAIN dispatched
        /\ total = Len(dispatched[i - 1].urls)

C1_Witness ==
    /\ dpc = "returned"
    /\ total = URLS_PER_ACCOUNT
    /\ error_429_count = 1
    /\ Count(IsExhausted) = 1

\* C2: no coroutine makes more than 3 attempts; after two disconnects a third
\* attempt is made, and when it gets a response that response is what the
\* coroutine returns
C2_ThirdAttemptCounts ==
    /\ [](\A k \in DOMAIN tasks : tasks[k].attempts <= 3)
    /\ [][\A k \in DOMAIN tasks :
            (dpc = "gathering" /\ dpc' = "gathering" /\ tasks[k].attempts = 2
                /\ tasks'[k] # tasks[k]) =>
                /\ tasks[k].st = "sleeping" => tasks'[k] = Task("pending", 2, NoBody)
                /\ (tasks[k].st = "pending" /\ tasks'[k].st = "done") =>
                    /\ tasks'[k].attempts = 3
                    /\ tasks'[k].result \in Responses
                    /\ tasks'[k].result # EXHAUSTED]_vars

C2_Witness ==
    \E k \in DOMAIN tasks : tasks[k] = Task("done", 3, OK)

\* C3: a coroutine whose 3 attempts all ended in a disconnect does not raise
\* but returns the synthesized body with code 500, the other coroutines and
\* the dispatch go on, and the tally counts it among the other errors
C3_ExhaustedIsOtherError ==
    /\ [][\A k \in DOMAIN tasks :
            (dpc = "gathering" /\ tasks[k] = Task("sleeping", 3, NoBody)
                /\ tasks'[k] # tasks[k]) =>
                /\ tasks'[k] = Task("done", 3, Body("object", "object", 500))
                /\ dpc' = "gathering"
                /\ pc' = "dispatch"
                /\ \A j \in DOMAIN tasks : j # k => tasks'[j] = tasks[j]]_vars
    /\ [](dpc = "returned" =>
            /\ other_errors_count >= Count(IsExhausted)
            /\ successful_urls + error_429_count <= Len(urls) - Count(IsExhausted))

C3_Witness ==
    /\ dpc = "returned"
    /\ \E k \in DOMAIN tasks : tasks[k] = Task("done", 3, EXHAUSTED)
    /\ \E k \in DOMAIN tasks : tasks[k].result = OK
    /\ other_errors_count = 1
    /\ successful_urls = 1

IsRateLimitBody(body) ==
    body.json = "object" /\ body.err = "object" /\ body.code = 429

IsOtherErrorBody(body) ==
    body.json = "object" /\ body.err = "object" /\ body.code \notin {429, NoCode}

IsSuccessBody(body) == body.json = "object" /\ body.err = "absent"

\* C4: when indexURL has returned, the rate-limited counter is the number of
\* bodies with an error object of code 429, the other-errors counter the number
\* of bodies with an error object of another code, the successful counter the
\* number of bodies without an error key, and every body is in one of them
C4_Classification ==
    dpc = "returned" =>
        /\ error_429_count = Count(IsRateLimitBody)
        /\ other_errors_count = Count(IsOtherErrorBody)
        /\ successful_urls = Count(IsSuccessBody)
        /\ \A k \in DOMAIN tasks :
            \/ IsRateLimitBody(tasks[k].result)
            \/ IsOtherErrorBody(tasks[k].result)
            \/ IsSuccessBody(tasks[k].result)

C4_Witness ==
    /\ dpc = "returned"
    /\ error_429_count = 1
    /\ \E k \in DOMAIN tasks : tasks[k].result = E503
    /\ other_errors_count = 1
    /\ \E a \in tallied : a # i - 1

\* the part of all_urls from 0-based position lo up to, not including, hi
Part(all, lo, hi) == [k \in 1..(Min(hi, Len(all)) - Min(lo, Len(all))) |->
                        all[Min(lo, Len(all)) + k]]

\* C5: every account a that is dispatched gets
\* all_urls[a*urls_per_account : (a+1)*urls_per_account], truncated at the end
\* of all_urls, urls_per_account being the configured quota
C5_SliceByConfiguredQuota ==
    \A a \in DOMAIN dispatched :
        dispatched[a].urls =
            Part(all_urls, a * urls_per_account, (a + 1) * urls_per_account)

RECURSIVE Allocated(_)
Allocated(as) ==
    IF as = {} THEN 0
    ELSE LET a == CHOOSE x \in as : TRUE
         IN Len(dispatched[a].urls) + Allocated(as \ {a})

\* C6: the slices of the dispatched accounts are index ranges of all_urls that
\* do not overlap and follow the account order, each slice is that range of
\* all_urls in order, and together they hold at most
\* min(len(all_urls), num_accounts * urls_per_account) URLs
C6_SlicesDisjointOrdered ==
    /\ \A a \in DOMAIN dispatched :
        /\ dispatched[a].start <= dispatched[a].end
        /\ dispatched[a].urls = Part(all_urls, dispatched[a].start, dispatched[a].end)
    /\ \A a, b \in DOMAIN dispatched :
        a < b => dispatched[a].end <= dispatched[b].start
    /\ Allocated(DOMAIN dispatched) <= Min(Len(all_urls), num_accounts * urls_per_account)

C6_Witness ==
    /\ {0, 1} \subseteq DOMAIN dispatched
    /\ mode = "head"
    /\ Len(dispatched[0].urls) = URLS_PER_ACCOUNT
    /\ Len(dispatched[1].urls) = 1
    /\ Allocated(DOMAIN dispatched) = Len(all_urls)

\* C7: when indexURL has returned, every coroutine it started has returned,
\* there is one coroutine per URL of the slice, and the counters add up to
\* the number of coroutines
C7_ReturnsAfterAll ==
    dpc = "returned" =>
        /\ Len(tasks) = Len(urls)
        /\ \A k \in DOMAIN tasks : tasks[k].st = "done" /\ tasks[k].result # NoBody
        /\ successful_urls + error_429_count + other_errors_count = Len(tasks)

C7_Witness ==
    /\ dpc = "returned"
    /\ Len(tasks) = 2
    /\ tasks[1].attempts = 3
    /\ tasks[2].attempts = 1

\* C8: an account reported as missing its key file has no token, no slice and
\* no tally; the step that reports it leaves main in the loop, at the next
\* account; the loop never moves past an account that is neither skipped nor
\* tallied, and main returns from the loop only after the last account
C8_MissingKeyFileSkipsOnlyThatAccount ==
    /\ [](\A a \in skipped :
            a \notin tokens /\ a \notin DOMAIN dispatched /\ a \notin tallied)
    /\ [](\A a \in Accounts :
            a < i => (a \in skipped \/ (a \in tokens /\ a \in tallied)))
    /\ []((pc = "done" /\ exitMsg = "none") => i = num_accounts)
    /\ [][skipped' # skipped =>
            /\ skipped' = skipped \cup {i}
            /\ pc' = "loop"
            /\ i' = i + 1
            /\ UNCHANGED <<tokens, dispatched, tallied>>]_vars

C8_Witness ==
    /\ pc = "done"
    /\ num_accounts = 3
    /\ skipped = {1}
    /\ tallied = {0, 2}
    /\ Len(dispatched[2].urls) > 0

\* C9: a failure of one account that is not a missing key file does not end
\* the run: when main is over, every later account has been skipped or tallied
C9_AccountFailureDoesNotAbort ==
    (pc \in {"done", "crashed"} /\ exitMsg = "none") =>
        \A a \in Accounts : a > i => (a \in skipped \/ a \in tallied)

IsMalformedBody(body) ==
    body.json = "invalid" \/ (body.err # "absent" /\ body.err # "object")

\* C10: a dispatch all of whose coroutines have returned a body does not
\* raise, and counts the malformed bodies among the other errors
C10_MalformedIsOtherError ==
    (dpc \in {"returned", "raised"}
        /\ \A k \in DOMAIN tasks : tasks[k].st = "done") =>
        /\ dpc = "returned"
        /\ other_errors_count >= Count(IsMalformedBody)


Unfinished == {k \in DOMAIN tasks : tasks[k].st \in {"pending", "sleeping"}}

\* C11: no failure of a single submission leaves the dispatch as an
\* exception: a dispatch one of whose coroutines met a transport failure
\* that is not a server disconnect is not left by an exception
C11_NoSubmissionFailureEscapes ==
    (\E k \in DOMAIN tasks : tasks[k].st = "raised") =>
        dpc \notin {"raising", "raised"} /\ pc # "crashed"

\* C12: a token is acquired for account i only, when every account that got
\* a token before has printed its tally and no coroutine is left unfinished;
\* the unfinished coroutines all belong to the account main is at and are
\* at most as many as the URLs of its slice
C12_AccountsOneAfterAnother ==
    /\ [](\A a \in tokens : a <= i /\ (a < i => a \in tallied))
    /\ [](Unfinished # {} =>
            /\ pc = "dispatch"
            /\ i \in tokens
            /\ i \in DOMAIN dispatched
            /\ Len(tasks) = Len(dispatched[i].urls)
            /\ Cardinality(Unfinished) <= Len(dispatched[i].urls))
    /\ [][tokens' # tokens =>
            /\ tokens' = tokens \cup {i}
            /\ i \notin tokens
            /\ Unfinished = {}
            /\ dpc \in {"idle", "returned"}
            /\ \A a \in tokens : a < i /\ a \in tallied]_vars

C12_Witness ==
    /\ pc = "dispatch"
    /\ i = 1
    /\ tokens = {0, 1}
    /\ tallied = {0}
    /\ Cardinality(Unfinished) = URLS_PER_ACCOUNT

\* C13: the session of a dispatch is open, and opened before any coroutine
\* has made an attempt, while the dispatch gathers; it is closed when the
\* dispatch is over, by a return or by an exception; it goes from open to
\* closed and never back, a later dispatch opens a session of its own
C13_SessionClosedOnEveryExit ==
    /\ [](dpc = "gathering" => session = "open")
    /\ [](dpc \in {"raising", "returned", "raised"} => session = "closed")
    /\ [](dpc = "idle" => session = "none")
    /\ [][(session' = "open" /\ session # "open") =>
            /\ tokens' # tokens
            /\ \A k \in DOMAIN tasks' : tasks'[k].attempts = 0]_vars
    /\ [][(session = "open" /\ session' # "open") =>
            /\ session' = "closed"
            /\ dpc = "gathering"
            /\ dpc' \in {"raising", "returned", "raised"}]_vars

C13_Witness ==
    /\ dpc = "raised"
    /\ session = "closed"
    /\ \E k \in DOMAIN tasks : tasks[k].st = "raised"
    /\ \E k \in DOMAIN tasks : tasks[k].st = "cancelled"

\* C14: a coroutine that has returned or raised does nothing more; an
\* attempt ends in a returned response, a sleep or an exception and counts
\* as one network call; a further attempt is made only out of the sleep that
\* follows a disconnect
C14_RetryOnlyAfterDisconnect ==
    [][\A k \in DOMAIN tasks :
        (dpc = "gathering" /\ dpc' = "gathering" /\ tasks'[k] # tasks[k]) =>
            /\ tasks[k].st \in {"pending", "sleeping"}
            /\ tasks[k].st = "pending" =>
                /\ tasks'[k].attempts = tasks[k].attempts + 1
                /\ tasks'[k].st \in {"done", "sleeping", "raised"}
                /\ tasks'[k].st = "done" => tasks'[k].result \in Responses
                /\ tasks'[k].st = "sleeping" => tasks'[k].result = NoBody
            /\ tasks'[k].st = "pending" =>
                /\ tasks[k].st = "sleeping"
                /\ tasks'[k].attempts = tasks[k].attempts]_vars

C14_Witness ==
    /\ dpc = "returned"
    /\ \E k \in DOMAIN tasks : tasks[k] = Task("done", 1, E429)
    /\ \E k \in DOMAIN tasks : tasks[k] = Task("done", 1, E503)

\* C15: a coroutine sleeps only between two attempts: it is never asleep
\* when its 3 attempts are used up
C15_SleepOnlyBetweenAttempts ==
    \A k \in DOMAIN tasks : tasks[k].st = "sleeping" => tasks[k].attempts < 3

\* C16: no coroutine is unfinished, in flight or asleep before a retry, while
\* the session of its dispatch is closed
C16_NoSubmissionOnClosedSession ==
    session = "closed" => Unfinished = {}

\* C17: a dispatch has one coroutine per position of its slice, equal URLs
\* included, all of them created before any has made an attempt, and their
\* number does not change while the dispatch lasts; nothing keeps them from
\* all being under way at once
C17_OneCoroutinePerUrl ==
    /\ [](dpc # "idle" => Len(tasks) = Len(urls))
    /\ [](dpc \in {"gathering", "raising"} => Len(tasks) = Len(dispatched[i].urls))
    /\ [][dpc' = "gathering" /\ dpc # "gathering" =>
            /\ Len(tasks') = Len(urls_for_account(all_urls, i))
            /\ \A k \in DOMAIN tasks' : tasks'[k] = NewTask]_vars
    /\ [][dpc = "gathering" /\ dpc' # "idle" => Len(tasks') = Len(tasks)]_vars
    /\ [](\A k \in DOMAIN tasks :
            (dpc = "gathering" /\ tasks[k].st = "pending") =>
                ENABLED AttemptDisconnects(k))

C17_Witness ==
    /\ mode = "env"
    /\ dpc = "gathering"
    /\ Len(tasks) = URLS_PER_ACCOUNT
    /\ urls = [k \in 1..URLS_PER_ACCOUNT |-> EnvUrl]
    /\ \A k \in DOMAIN tasks : tasks[k] = Task("sleeping", 1, NoBody)

\* C18: after Ctrl+C in the loop over the accounts and the operator's Enter,
\* main starts over: nothing of the stopped run is kept, the configuration
\* is read again, the loop begins at account 0 and passes no account
\* without a skip or a tally, and a run that reaches the end of the loop has
\* gone through every account, those that had a tally before included
C18_RestartFromTheBeginning ==
    /\ [][(pc = "paused" /\ pc' # "paused") =>
            \/ pc' = "exited"
            \/ /\ pc' = "start"
               /\ restarted'
               /\ i' = 0
               /\ skipped' = {} /\ tokens' = {} /\ tallied' = {}
               /\ dispatched' = <<>>]_vars
    /\ [][(restarted /\ pc = "start" /\ pc' # "start") =>
            /\ pc' \in {"loop", "done", "crashed"}
            /\ i' = 0
            /\ tokens' = {} /\ tallied' = {} /\ skipped' = {}]_vars
    /\ []((restarted /\ pc \in {"loop", "dispatch", "done"}) =>
            \A a \in Accounts : a < i => (a \in skipped \/ a \in tallied))
    /\ []((restarted /\ pc = "done" /\ exitMsg = "none") => i = num_accounts)

C18_Witness ==
    /\ restarted
    /\ completedBefore
    /\ pc = "done"
    /\ num_accounts = 2
    /\ tallied = {0, 1}

\* C19: in a run of the repeat-one-URL side that reaches the end of the loop
\* with no account skipped, every account was dispatched exactly
\* urls_per_account URLs and the slices together are all of all_urls
C19_RepeatModeQuota ==
    (mode = "env" /\ pc = "done" /\ exitMsg = "none" /\ skipped = {}) =>
        /\ \A a \in Accounts :
            /\ a \in DOMAIN dispatched
            /\ Len(dispatched[a].urls) = urls_per_account
        /\ Allocated(DOMAIN dispatched) = Len(all_urls)

====
